---- MODULE Spec2Model ----
(***************************************************************************)
(* A model of the wire-format core of prost: the LEB128 varint codec       *)
(* (prost/src/encoding/varint.rs), field numbers and tags                  *)
(* (field_number.rs, tag.rs), length delimiters (length_delimiter.rs),     *)
(* the encode error (error.rs) and the Any container (prost-types any.rs). *)
(*                                                                         *)
(* Machine integers are little-endian byte sequences (w[1] is the least    *)
(* significant byte): a u64 is 8 bytes, a u32 is 4 bytes.  TLC's own       *)
(* integers are 32-bit signed, so they only carry values below 2^31        *)
(* (bytes, lengths, the 28-bit partial sums of the unrolled decoder).      *)
(***************************************************************************)
EXTENDS Integers, Sequences, FiniteSets, TLC

VARIABLES
    buf,         \* the bytes held by the buffer: written at the end, read from the front
    cap,         \* remaining_mut() of the buffer: how many more bytes may be written
    usize_bytes, \* size_of::<usize>() of the build target (4 or 8)
    any,         \* the Any value at hand: [type_url, value], or NoAny
    prev,        \* the call before the last one
    last         \* the last call: [op, arg, before, out]

vars == <<buf, cap, usize_bytes, any, prev, last>>

-----------------------------------------------------------------------------
(* Bounds of the model.                                                    *)

\* longest input buffer handed to a decoder (one more than a varint's 10 bytes)
MaxLen == 11
\* largest remaining capacity of a buffer handed to an encoder
MaxCap == 10

-----------------------------------------------------------------------------
(* Machine words.                                                          *)

Byte == 0..255

U64_BYTES == 8
U32_BYTES == 4

Max(a, b) == IF a >= b THEN a ELSE b
Min(a, b) == IF a <= b THEN a ELSE b

\* byte i (1-based) of w, 0 outside the word
ByteAt(w, i) == IF i >= 1 /\ i <= Len(w) THEN w[i] ELSE 0

\* bit k (0-based) of the word w
BitOf(w, k) == (ByteAt(w, (k \div 8) + 1) \div (2 ^ (k % 8))) % 2

\* the n-byte word holding x, for 0 <= x < 2^31
FromNat(n, x) ==
    [i \in 1..n |-> IF i <= 3 THEN (x \div (256 ^ (i - 1))) % 256
                    ELSE IF i = 4 THEN x \div 16777216
                    ELSE 0]

\* the word's value as a TLC integer; only for words below 2^31
ToNat(w) == ByteAt(w, 1) + 256 * ByteAt(w, 2) + 65536 * ByteAt(w, 3)
            + 16777216 * ByteAt(w, 4)

FitsNat(w) == ByteAt(w, 4) < 128 /\ \A i \in 5..Len(w) : w[i] = 0

\* u64::from(x: u32), x as u64, x as u32: zero-extend or truncate to n bytes
Resize(w, n) == [i \in 1..n |-> ByteAt(w, i)]

\* 2^k and 2^k - 1 as n-byte words
Pow2W(n, k) == [i \in 1..n |-> IF i = (k \div 8) + 1 THEN 2 ^ (k % 8) ELSE 0]
OnesW(n, k) ==
    [i \in 1..n |-> IF 8 * i <= k THEN 255
                    ELSE IF 8 * (i - 1) < k THEN (2 ^ (k - 8 * (i - 1))) - 1
                    ELSE 0]

IsZero(w) == \A i \in 1..Len(w) : w[i] = 0

\* a < b on words of the same width
RECURSIVE LtFrom(_, _, _)
LtFrom(a, b, i) ==
    IF i = 0 THEN FALSE
    ELSE IF a[i] # b[i] THEN a[i] < b[i]
    ELSE LtFrom(a, b, i - 1)
WLt(a, b) == LtFrom(a, b, Len(a))
WLe(a, b) == ~WLt(b, a)

OrByte(a, b) ==
    LET f[k \in 0..8] ==
            IF k = 8 THEN 0
            ELSE (IF ((a \div (2 ^ k)) % 2) + ((b \div (2 ^ k)) % 2) > 0
                  THEN 2 ^ k ELSE 0) + f[k + 1]
    IN f[0]

AndByte(a, b) ==
    LET f[k \in 0..8] ==
            IF k = 8 THEN 0
            ELSE (IF ((a \div (2 ^ k)) % 2) + ((b \div (2 ^ k)) % 2) = 2
                  THEN 2 ^ k ELSE 0) + f[k + 1]
    IN f[0]

XorByte(a, b) ==
    LET f[k \in 0..8] ==
            IF k = 8 THEN 0
            ELSE (IF ((a \div (2 ^ k)) % 2) + ((b \div (2 ^ k)) % 2) = 1
                  THEN 2 ^ k ELSE 0) + f[k + 1]
    IN f[0]

\* a | b, a & b
WOr(a, b) == [i \in 1..Len(a) |-> OrByte(a[i], ByteAt(b, i))]
WAnd(a, b) == [i \in 1..Len(a) |-> AndByte(a[i], ByteAt(b, i))]

\* w >> n and w << n for 0 <= n < 8 * Len(w); the bits shifted out are lost
WShr(w, n) ==
    LET q == n \div 8
        r == n % 8
    IN [i \in 1..Len(w) |->
            ((ByteAt(w, i + q) + 256 * ByteAt(w, i + q + 1)) \div (2 ^ r)) % 256]

WShl(w, n) ==
    LET q == n \div 8
        r == n % 8
    IN [i \in 1..Len(w) |->
            ((ByteAt(w, i - q) * (2 ^ r))
             + ((ByteAt(w, i - q - 1) * (2 ^ r)) \div 256)) % 256]

\* a + b: the wrapped sum and whether it overflowed the width
RECURSIVE AddFrom(_, _, _, _, _)
AddFrom(a, b, i, carry, acc) ==
    IF i > Len(a) THEN [sum |-> acc, overflow |-> carry = 1]
    ELSE LET s == a[i] + ByteAt(b, i) + carry
         IN AddFrom(a, b, i + 1, s \div 256, Append(acc, s % 256))
WAdd(a, b) == AddFrom(a, b, 1, 0, <<>>)

\* a - b for a >= b
RECURSIVE SubFrom(_, _, _, _, _)
SubFrom(a, b, i, borrow, acc) ==
    IF i > Len(a) THEN acc
    ELSE LET s == a[i] - ByteAt(b, i) - borrow
         IN SubFrom(a, b, i + 1, IF s < 0 THEN 1 ELSE 0,
                    Append(acc, IF s < 0 THEN s + 256 ELSE s))
WSub(a, b) == SubFrom(a, b, 1, 0, <<>>)

\* the number of significant bits of a byte and of a word
RECURSIVE ByteBits(_)
ByteBits(b) == IF b = 0 THEN 0 ELSE 1 + ByteBits(b \div 2)
RECURSIVE BitLenFrom(_, _)
BitLenFrom(w, i) ==
    IF i = 0 THEN 0
    ELSE IF w[i] # 0 THEN 8 * (i - 1) + ByteBits(w[i])
    ELSE BitLenFrom(w, i - 1)
BitLen(w) == BitLenFrom(w, Len(w))

\* u64::leading_zeros / u32::leading_zeros
leading_zeros(w) == 8 * Len(w) - BitLen(w)

-----------------------------------------------------------------------------
(* Outcomes of a call.  kind is "ok", "err" (an Err value), "panic" (an    *)
(* assertion or a buffer precondition failed) or "ub" (an unchecked read   *)
(* past the end of the slice).                                             *)

NoVal == <<>>

Ok(val, used) == [kind |-> "ok", val |-> val, used |-> used, err |-> "none", path |-> "none"]
Err(msg, used) == [kind |-> "err", val |-> NoVal, used |-> used, err |-> msg, path |-> "none"]
Panic(used) == [kind |-> "panic", val |-> NoVal, used |-> used, err |-> "none", path |-> "none"]
Undefined == [kind |-> "ub", val |-> NoVal, used |-> 0, err |-> "none", path |-> "none"]

Via(out, path) == [out EXCEPT !.path = path]

INVALID_VARINT == "invalid varint"

-----------------------------------------------------------------------------
(* varint.rs                                                               *)

U64(x) == FromNat(U64_BYTES, x)
U32(x) == FromNat(U32_BYTES, x)

U64_MAX == OnesW(U64_BYTES, 64)

\* Varint::encode: the bytes the loop hands to put_u8, in order
RECURSIVE encode_loop(_, _, _)
encode_loop(value, left, out) ==
    IF left = 0 THEN out
    ELSE IF WLt(value, U64(128))
         THEN Append(out, Resize(value, 1)[1])
         ELSE encode_loop(WShr(value, 7), left - 1,
                          Append(out, Resize(WOr(WAnd(value, U64(127)), U64(128)), 1)[1]))

\* the loop written as `for _ in 0..9`
Varint_encode_bytes_nine(value) == encode_loop(value, 9, <<>>)

Varint_encode_bytes(value) == encode_loop(value, 10, <<>>)

\* the size computed with 64 in place of 73
Varint_encoded_len_floor(value) ==
    ((XorByte(leading_zeros(WOr(value, U64(1))), 63) * 9) + 64) \div 64

\* Varint::encoded_len
Varint_encoded_len(value) ==
    ((XorByte(leading_zeros(WOr(value, U64(1))), 63) * 9) + 73) \div 64

\* *bytes.get_unchecked(i): the byte, or -1 for a read past the end
get_unchecked(bytes, i) == IF i < Len(bytes) THEN bytes[i + 1] ELSE -1

\* the sum with the shift left out
SliceSum_unshifted(value, part, shift, used) ==
    LET s == WAdd(value, U64(part))
    IN IF s.overflow THEN Panic(0) ELSE Ok(s.sum, used)

\* value + (u64::from(part) << shift), consumed `used` bytes
SliceSum(value, part, shift, used) ==
    LET s == WAdd(value, WShl(U64(part), shift))
    IN IF s.overflow THEN Panic(0) ELSE Ok(s.sum, used)

\* decode_varint_slice: the unrolled decoder over a slice
decode_varint_slice(bytes) ==
    IF bytes = <<>> THEN Panic(0)
    ELSE IF ~(Len(bytes) > 10 \/ bytes[Len(bytes)] < 128) THEN Panic(0)
    ELSE
    LET b0 == get_unchecked(bytes, 0)
        p00 == b0
    IN  IF b0 < 0 THEN Undefined ELSE
        IF b0 < 128 THEN Ok(U64(p00), 1) ELSE
    LET b1 == get_unchecked(bytes, 1)
        p01 == (p00 - 128) + b1 * 128
    IN  IF b1 < 0 THEN Undefined ELSE
        IF b1 < 128 THEN Ok(U64(p01), 2) ELSE
    LET b2 == get_unchecked(bytes, 2)
        p02 == (p01 - 128 * 128) + b2 * 16384
    IN  IF b2 < 0 THEN Undefined ELSE
        IF b2 < 128 THEN Ok(U64(p02), 3) ELSE
    LET b3 == get_unchecked(bytes, 3)
        p03 == (p02 - 128 * 16384) + b3 * 2097152
    IN  IF b3 < 0 THEN Undefined ELSE
        IF b3 < 128 THEN Ok(U64(p03), 4) ELSE
    LET value0 == U64(p03 - 128 * 2097152)
        b4 == get_unchecked(bytes, 4)
        p10 == b4
    IN  IF b4 < 0 THEN Undefined ELSE
        IF b4 < 128 THEN SliceSum(value0, p10, 28, 5) ELSE
    LET b5 == get_unchecked(bytes, 5)
        p11 == (p10 - 128) + b5 * 128
    IN  IF b5 < 0 THEN Undefined ELSE
        IF b5 < 128 THEN SliceSum(value0, p11, 28, 6) ELSE
    LET b6 == get_unchecked(bytes, 6)
        p12 == (p11 - 128 * 128) + b6 * 16384
    IN  IF b6 < 0 THEN Undefined ELSE
        IF b6 < 128 THEN SliceSum(value0, p12, 28, 7) ELSE
    LET b7 == get_unchecked(bytes, 7)
        p13 == (p12 - 128 * 16384) + b7 * 2097152
    IN  IF b7 < 0 THEN Undefined ELSE
        IF b7 < 128 THEN SliceSum(value0, p13, 28, 8) ELSE
    LET s1 == WAdd(value0, WShl(U64(p13 - 128 * 2097152), 28))
        value1 == s1.sum
        b8 == get_unchecked(bytes, 8)
        p20 == b8
    IN  IF s1.overflow THEN Panic(0) ELSE
        IF b8 < 0 THEN Undefined ELSE
        IF b8 < 128 THEN SliceSum(value1, p20, 56, 9) ELSE
    LET b9 == get_unchecked(bytes, 9)
        p21 == (p20 - 128) + b9 * 128
    IN  IF b9 < 0 THEN Undefined ELSE
        IF b9 < 2 THEN SliceSum(value1, p21, 56, 10)
        ELSE Err(INVALID_VARINT, 0)

\* decode_varint_slow: one get_u8 per iteration, at most min(10, remaining)
RECURSIVE slow_loop(_, _, _, _)
slow_loop(bytes, count, n, value) ==
    IF count >= n THEN Err(INVALID_VARINT, count)
    ELSE LET byte == bytes[count + 1]
             value2 == WOr(value, WShl(U64(AndByte(byte, 127)), count * 7))
         IN IF byte <= 127
            THEN IF count = 9 /\ byte >= 2
                 THEN Err(INVALID_VARINT, count + 1)
                 ELSE Ok(value2, count + 1)
            ELSE slow_loop(bytes, count + 1, n, value2)

\* the loop written as `for count in 0..min(9, buf.remaining())`
decode_varint_slow_nine(bytes) == slow_loop(bytes, 0, Min(9, Len(bytes)), U64(0))

decode_varint_slow(bytes) == slow_loop(bytes, 0, Min(10, Len(bytes)), U64(0))

\* the unrolled decoder entered whatever the chunk ends with
Varint_decode_bytes_unguarded(bytes) ==
    LET len == Len(bytes)
    IN IF len = 0 THEN Via(Err(INVALID_VARINT, 0), "empty")
       ELSE IF bytes[1] < 128 THEN Via(Ok(U64(bytes[1]), 1), "fast")
       ELSE Via(decode_varint_slice(bytes), "slice")

\* the unrolled decoder entered as its doc comment allows, with `len >= 10`
Varint_decode_bytes_ge10(bytes) ==
    LET len == Len(bytes)
    IN IF len = 0 THEN Via(Err(INVALID_VARINT, 0), "empty")
       ELSE IF bytes[1] < 128 THEN Via(Ok(U64(bytes[1]), 1), "fast")
       ELSE IF len >= 10 \/ bytes[len] < 128
            THEN Via(decode_varint_slice(bytes), "slice")
            ELSE Via(decode_varint_slow(bytes), "slow")

\* Varint::decode over the chunk `bytes`
Varint_decode_bytes(bytes) ==
    LET len == Len(bytes)
    IN IF len = 0 THEN Via(Err(INVALID_VARINT, 0), "empty")
       ELSE IF bytes[1] < 128 THEN Via(Ok(U64(bytes[1]), 1), "fast")
       ELSE IF len > 10 \/ bytes[len] < 128
            THEN Via(decode_varint_slice(bytes), "slice")
            ELSE Via(decode_varint_slow(bytes), "slow")

-----------------------------------------------------------------------------
(* field_number.rs                                                         *)

MIN_VALUE == U32(1)
MAX_VALUE == WSub(WShl(U32(1), 29), U32(1))

INVALID_FIELD_NUMBER == "invalid field number"

\* the range check with 0 let through
InFieldRange_from_zero(value) == WLe(U32(0), value) /\ WLe(value, MAX_VALUE)

\* (MIN_VALUE..=MAX_VALUE).contains(&value)
InFieldRange(value) == WLe(MIN_VALUE, value) /\ WLe(value, MAX_VALUE)

\* <FieldNumber as TryFrom<u32>>::try_from
FieldNumber_try_from(value) ==
    IF InFieldRange(value) THEN Ok(value, 0)
    ELSE Err(INVALID_FIELD_NUMBER, 0)

\* the constructor with only the upper limit checked
FieldNumber_new_unfloored(field_number) ==
    IF WLt(MAX_VALUE, field_number) THEN Panic(0)
    ELSE Ok(field_number, 0)

\* FieldNumber::new
FieldNumber_new(field_number) ==
    IF WLt(field_number, MIN_VALUE) \/ WLt(MAX_VALUE, field_number) THEN Panic(0)
    ELSE Ok(field_number, 0)

-----------------------------------------------------------------------------
(* WireType (encoding/wire_type.rs): the six wire types and their values.  *)

WireTypes == {"Varint", "Fixed64", "LengthDelimited", "StartGroup", "EndGroup", "Fixed32"}

WireTypeValue(wire_type) ==
    CASE wire_type = "Varint" -> 0
      [] wire_type = "Fixed64" -> 1
      [] wire_type = "LengthDelimited" -> 2
      [] wire_type = "StartGroup" -> 3
      [] wire_type = "EndGroup" -> 4
      [] wire_type = "Fixed32" -> 5

INVALID_WIRE_TYPE == "invalid wire type value"

\* <WireType as TryFrom<u64>>::try_from
WireType_try_from(value) ==
    IF \E wt \in WireTypes : U64(WireTypeValue(wt)) = value
    THEN Ok(CHOOSE wt \in WireTypes : U64(WireTypeValue(wt)) = value, 0)
    ELSE Err(INVALID_WIRE_TYPE, 0)

-----------------------------------------------------------------------------
(* tag.rs                                                                  *)

\* Tag::new
Tag_new(field_number, wire_type) ==
    [field_number |-> field_number, wire_type |-> wire_type]

INVALID_KEY == "invalid key value"

\* the key as Tag::encoded_len computes it, without the wire type
Tag_key_untyped(tag) == Resize(WShl(tag.field_number, 3), U64_BYTES)

\* the key Tag::encode hands to Varint::encode
Tag_key(tag) ==
    LET key == WOr(WShl(tag.field_number, 3), U32(WireTypeValue(tag.wire_type)))
    IN Resize(key, U64_BYTES)

Tag_encode_bytes(tag) == Varint_encode_bytes(Tag_key(tag))

\* Tag::encoded_len
Tag_encoded_len(tag) ==
    LET key == Resize(WShl(tag.field_number, 3), U64_BYTES)
    IN Varint_encoded_len(key)

\* Tag::decode over the chunk `bytes`
Tag_decode_bytes(bytes) ==
    LET v == Varint_decode_bytes(bytes)
        key == v.val
    IN IF v.kind # "ok" THEN v
       ELSE IF WLt(Resize(OnesW(U32_BYTES, 32), U64_BYTES), key)
            THEN Via(Err(INVALID_KEY, v.used), v.path)
       ELSE LET wire_type == WireType_try_from(WAnd(key, U64(7)))
            IN IF wire_type.kind # "ok"
               THEN Via(Err(wire_type.err, v.used), v.path)
               ELSE LET field_number ==
                            FieldNumber_try_from(WShr(Resize(key, U32_BYTES), 3))
                    IN IF field_number.kind # "ok"
                       THEN Via(Err(field_number.err, v.used), v.path)
                       ELSE Via(Ok(Tag_new(field_number.val, wire_type.val), v.used),
                                v.path)

-----------------------------------------------------------------------------
(* length_delimiter.rs and the encode error of error.rs                    *)

LENGTH_DELIMITER_TOO_LARGE == "length delimiter exceeds maximum usize value"

\* LengthDelimiter::encode: self.value as u64, then Varint::encode
LengthDelimiter_encode_bytes(length) ==
    Varint_encode_bytes(Resize(length, U64_BYTES))

\* LengthDelimiter::encoded_len
LengthDelimiter_encoded_len(length) ==
    Varint_encoded_len(Resize(length, U64_BYTES))

\* length_delimiter_len
length_delimiter_len(length) == LengthDelimiter_encoded_len(length)

\* LengthDelimiter::decode over the chunk `bytes` on a target whose usize has n bytes
LengthDelimiter_decode_bytes(bytes, n) ==
    LET v == Varint_decode_bytes(bytes)
    IN IF v.kind # "ok" THEN v
       ELSE IF WLt(Resize(OnesW(n, 8 * n), U64_BYTES), v.val)
            THEN Via(Err(LENGTH_DELIMITER_TOO_LARGE, v.used), v.path)
            ELSE Via(Ok(Resize(v.val, n), v.used), v.path)

\* the two capacities taken in the other order
EncodeError_new_swapped(required, remaining) ==
    [required |-> remaining, remaining |-> required]

\* EncodeError::new
EncodeError_new(required, remaining) ==
    [required |-> required, remaining |-> remaining]

-----------------------------------------------------------------------------
(* The capabilities Any consumes (Name, Message) and TypeUrl.  A string is *)
(* a sequence of tokens; "/" is a token of its own.                        *)

TIMESTAMP_URL == <<"type.googleapis.com", "/", "google.protobuf.Timestamp">>
DURATION_URL == <<"type.googleapis.com", "/", "google.protobuf.Duration">>

\* the message types: two well-known ones, and two whose Name gives no URL shape
Types == {"Timestamp", "Duration", "Bare", "Blank"}

\* Name::type_url
type_url(T) ==
    CASE T = "Timestamp" -> TIMESTAMP_URL
      [] T = "Duration" -> DURATION_URL
      [] T = "Bare" -> <<"google.protobuf.Timestamp">>
      [] T = "Blank" -> <<>>

\* Name::full_name, as a string
full_name(T) == IF type_url(T) = <<>> THEN <<>> ELSE <<type_url(T)[Len(type_url(T))]>>

\* the shape authority/package.TypeName: a "/" with text on both sides
WellFormed(url) ==
    \E i \in 2..(Len(url) - 1) :
        /\ url[i] = "/"
        /\ \A j \in (i + 1)..Len(url) : url[j] # "/"

\* TypeUrl::new
TypeUrl_new(url) ==
    IF WellFormed(url) THEN [some |-> TRUE, url |-> url]
    ELSE [some |-> FALSE, url |-> <<>>]

Drop(bytes, n) == SubSeq(bytes, n + 1, Len(bytes))

\* the messages: seconds (field 1) and nanos (field 2), both varints
Messages ==
    [seconds : {U64(0), U64(946684800), U64_MAX},
     nanos : {U64(0), U64(999999999)}]

DefaultMessage == [seconds |-> U64(0), nanos |-> U64(0)]

Field(n, value) ==
    IF IsZero(value) THEN <<>>
    ELSE Tag_encode_bytes(Tag_new(U32(n), "Varint")) \o Varint_encode_bytes(value)

\* Message::encode into a Vec
Message_encode(T, m) == Field(1, m.seconds) \o Field(2, m.nanos)

\* Message::decode: merge the fields until the input ends
RECURSIVE merge(_, _)
merge(bytes, m) ==
    IF bytes = <<>> THEN Ok(m, 0)
    ELSE LET tag == Tag_decode_bytes(bytes)
         IN IF tag.kind # "ok" THEN Err(tag.err, 0)
            ELSE IF tag.val.wire_type # "Varint" \/ tag.val.field_number \notin {U32(1), U32(2)}
                 THEN Err("unexpected wire type", 0)
            ELSE LET v == Varint_decode_bytes(Drop(bytes, tag.used))
                 IN IF v.kind # "ok" THEN Err(v.err, 0)
                    ELSE merge(Drop(bytes, tag.used + v.used),
                               IF tag.val.field_number = U32(1)
                               THEN [m EXCEPT !.seconds = v.val]
                               ELSE [m EXCEPT !.nanos = v.val])

Message_decode(T, bytes) == merge(bytes, DefaultMessage)

-----------------------------------------------------------------------------
(* any.rs                                                                  *)

AnyOf(url, value) == [type_url |-> url, value |-> value, set |-> TRUE]

\* an Any stamped with the type's name where its URL belongs
Any_from_msg_named(T, msg) == Ok(AnyOf(full_name(T), Message_encode(T, msg)), 0)

\* Any::from_msg
Any_from_msg_result(T, msg) == Ok(AnyOf(type_url(T), Message_encode(T, msg)), 0)

UnexpectedTypeUrl(actual, expected) ==
    [Err("UnexpectedTypeUrl", 0) EXCEPT !.val = [actual |-> actual, expected |-> expected]]

\* DecodeAnyError::from(DecodeError)
DecodeAnyError_from(out) ==
    IF out.kind = "err" THEN [Err("Decode", 0) EXCEPT !.val = out.err] ELSE out

\* a stored string that is no type URL reported as a failure to parse it
Any_to_msg_parse_error(a, T) ==
    LET expected_type_url == type_url(T)
        expected == TypeUrl_new(expected_type_url)
        actual == TypeUrl_new(a.type_url)
    IN IF ~actual.some THEN DecodeAnyError_from(Err("invalid type URL", 0))
       ELSE IF expected.some /\ expected = actual
       THEN DecodeAnyError_from(Message_decode(T, a.value))
       ELSE UnexpectedTypeUrl(a.type_url, expected_type_url)

\* the two strings compared as they are, without TypeUrl::new
Any_to_msg_unvalidated(a, T) ==
    LET expected_type_url == type_url(T)
    IN IF expected_type_url = a.type_url
       THEN DecodeAnyError_from(Message_decode(T, a.value))
       ELSE UnexpectedTypeUrl(a.type_url, expected_type_url)

\* Any::to_msg
Any_to_msg_result(a, T) ==
    LET expected_type_url == type_url(T)
        expected == TypeUrl_new(expected_type_url)
        actual == TypeUrl_new(a.type_url)
    IN IF expected.some /\ actual.some /\ expected = actual
       THEN DecodeAnyError_from(Message_decode(T, a.value))
       ELSE UnexpectedTypeUrl(a.type_url, expected_type_url)

-----------------------------------------------------------------------------
(* The inputs the calls are made with.                                     *)

\* every bit length of a u64, at both ends of its range, the test's 300, and
\* 0x0123456789ABCDEF
BoundaryValues ==
    {Pow2W(U64_BYTES, k) : k \in 0..63} \cup {OnesW(U64_BYTES, k) : k \in 0..64}
        \cup {U64(300), <<239, 205, 171, 137, 103, 69, 35, 1>>}

\* keys around the limits Tag::decode checks: field number 0 and 1 with every
\* 3-bit wire type value, the largest keys of 32 bits, the first keys beyond
KeyValues ==
    {U64(n) : n \in 0..15}
        \cup {WSub(OnesW(U64_BYTES, 32), U64(d)) : d \in 0..7}
        \cup {WAdd(Pow2W(U64_BYTES, 32), U64(d)).sum : d \in 0..7}

U64Values == BoundaryValues \cup KeyValues

\* every bit length of a field number, at both ends of its range, and 300
FieldNumbers ==
    {Pow2W(U32_BYTES, k) : k \in 0..28} \cup {OnesW(U32_BYTES, k) : k \in 1..29}
        \cup {U32(300)}

\* u32 values handed to the FieldNumber constructors
U32Values ==
    FieldNumbers \cup {U32(0), Pow2W(U32_BYTES, 29), Pow2W(U32_BYTES, 31),
                       OnesW(U32_BYTES, 32)}

\* lengths at which the delimiter grows by a byte, on a target with n-byte usize
Lengths(n) ==
    {Resize(v, n) : v \in
        {Pow2W(U64_BYTES, 7 * k) : k \in 0..((8 * n) \div 7)}
            \cup {OnesW(U64_BYTES, 7 * k) : k \in 0..((8 * n) \div 7)}
            \cup {OnesW(U64_BYTES, 8 * n), U64(300)}}

ContBytes == {128, 172, 255}
TermBytes == {0, 1, 2, 127}
TailBytes == {1, 128}

\* k continuation bytes: c ... c d
Run(c, d, k) == [i \in 1..k |-> IF i = k THEN d ELSE c]

Runs == {Run(c, d, k) : c \in ContBytes, d \in ContBytes, k \in 0..MaxLen}
Terms == {<<>>} \cup {<<t>> : t \in TermBytes}
            \cup {<<t, x>> : t \in TermBytes, x \in TailBytes}

\* the contents of the buffers handed to the decoders
InputBufs == {b \in {r \o t : r \in Runs, t \in Terms} : Len(b) <= MaxLen}

\* type URLs found in a received Any: the two well-known ones, one in another
\* case, one of another authority, and strings that are no type URL
StoredUrls ==
    {TIMESTAMP_URL, DURATION_URL,
     <<"type.googleapis.com", "/", "google.protobuf.timestamp">>,
     <<"example.com", "/", "google.protobuf.Timestamp">>,
     <<"type.googleapis.com", "/">>,
     <<"google.protobuf.Timestamp">>,
     <<>>}

\* payloads found in a received Any: encoded messages, and bytes that are none
Payloads ==
    {Message_encode("Timestamp", m) : m \in Messages}
        \cup {<<128>>, <<8>>, <<15, 1>>, <<8, 255>>}

-----------------------------------------------------------------------------
(* The calls.                                                              *)

Call(op, arg, out) == [op |-> op, arg |-> arg, before |-> buf, cap |-> cap, out |-> out]

NoCall == [op |-> "none", arg |-> NoVal, before |-> <<>>, cap |-> 0, out |-> Ok(NoVal, 0)]
NoAny == [type_url |-> <<>>, value |-> <<>>, set |-> FALSE]

\* a panic or undefined behaviour ends the run
Running == last.out.kind \in {"ok", "err"}

\* A run is the life of one buffer: an empty buffer is written by its first call,
\* then read.
Unwritten == buf = <<>> /\ last.op = "none"

\* A call that was refused for lack of room wrote nothing, and is repeated as it was.
Refused(length) ==
    /\ buf = <<>>
    /\ last.op = "encode_length_delimiter" /\ last.out.kind = "err"
    /\ last.arg = length

\* BufMut::put_u8 for each of `bytes`: the first one that finds no room panics
Put(op, arg, bytes) ==
    LET n == Min(Len(bytes), cap)
    IN /\ buf' = buf \o SubSeq(bytes, 1, n)
       /\ cap' = cap - n
       /\ prev' = last
       /\ last' = Call(op, arg, IF n = Len(bytes) THEN Ok(NoVal, n) ELSE Panic(n))

\* a decoder that returned `out` after advancing the buffer by out.used
Got(op, out) ==
    /\ buf' = Drop(buf, out.used)
    /\ prev' = last
    /\ last' = Call(op, NoVal, out)
    /\ UNCHANGED cap

\* the outcome of an unchecked read past the end is not defined
Outcomes(out) ==
    IF out.kind = "ub"
    THEN {Undefined, Err(INVALID_VARINT, 0)}
             \cup {Ok(v, n) : v \in {U64(0), OnesW(U64_BYTES, 64)}, n \in 1..10}
    ELSE {out}

Varint_encode ==
    /\ Running /\ Unwritten
    /\ \E value \in U64Values :
           Put("Varint::encode", value, Varint_encode_bytes(value))
    /\ UNCHANGED <<usize_bytes, any>>

Varint_decode ==
    /\ Running
    /\ \E out \in Outcomes(Varint_decode_bytes(buf)) : Got("Varint::decode", out)
    /\ UNCHANGED <<usize_bytes, any>>

\* decode_varint_slice(bytes) called on the buffer's chunk; the caller advances
decode_varint_slice_call ==
    /\ Running
    /\ \E out \in Outcomes(decode_varint_slice(buf)) :
           /\ prev' = last
           /\ last' = Call("decode_varint_slice", NoVal, out)
    /\ UNCHANGED <<buf, cap, usize_bytes, any>>

decode_varint_slow_call ==
    /\ Running
    /\ Got("decode_varint_slow", decode_varint_slow(buf))
    /\ UNCHANGED <<usize_bytes, any>>

Tag_encode ==
    /\ Running /\ Unwritten
    /\ \E field_number \in FieldNumbers, wire_type \in WireTypes :
           LET tag == Tag_new(field_number, wire_type)
           IN Put("Tag::encode", tag, Tag_encode_bytes(tag))
    /\ UNCHANGED <<usize_bytes, any>>

Tag_decode ==
    /\ Running
    /\ \E out \in Outcomes(Tag_decode_bytes(buf)) : Got("Tag::decode", out)
    /\ UNCHANGED <<usize_bytes, any>>

encode_length_delimiter ==
    /\ Running
    /\ \E length \in Lengths(usize_bytes) :
           /\ Unwritten \/ Refused(length)
           /\ LET required == LengthDelimiter_encoded_len(length)
                  remaining == cap
              IN IF required > remaining
                 THEN /\ prev' = last
                      /\ last' = Call("encode_length_delimiter", length,
                                      [Err("insufficient capacity", 0) EXCEPT
                                          !.val = EncodeError_new(required, remaining)])
                      /\ UNCHANGED <<buf, cap>>
                 ELSE Put("encode_length_delimiter", length,
                          LengthDelimiter_encode_bytes(length))
    /\ UNCHANGED <<usize_bytes, any>>

decode_length_delimiter ==
    /\ Running
    /\ \E out \in Outcomes(LengthDelimiter_decode_bytes(buf, usize_bytes)) :
           Got("decode_length_delimiter", out)
    /\ UNCHANGED <<usize_bytes, any>>

\* the caller makes room after a capacity error, to repeat the call
Grow ==
    /\ last.op = "encode_length_delimiter" /\ last.out.kind = "err"
    /\ \E more \in Max(cap + 1, last.out.val.required)..MaxCap : cap' = more
    /\ UNCHANGED <<buf, usize_bytes, any, prev, last>>

Any_from_msg ==
    /\ last.op = "none" /\ ~any.set
    /\ \E T \in Types, msg \in Messages :
           LET out == Any_from_msg_result(T, msg)
           IN /\ any' = out.val
              /\ prev' = last
              /\ last' = Call("Any::from_msg", [type |-> T, msg |-> msg], out)
    /\ UNCHANGED <<buf, cap, usize_bytes>>

Any_to_msg ==
    /\ any.set
    /\ \E T \in Types :
           /\ prev' = last
           /\ last' = Call("Any::to_msg", T, Any_to_msg_result(any, T))
    /\ UNCHANGED <<buf, cap, usize_bytes, any>>

FieldNumber_new_call ==
    /\ Running /\ Unwritten
    /\ \E field_number \in U32Values :
           /\ prev' = last
           /\ last' = Call("FieldNumber::new", field_number, FieldNumber_new(field_number))
    /\ UNCHANGED <<buf, cap, usize_bytes, any>>

FieldNumber_try_from_call ==
    /\ Running /\ Unwritten
    /\ \E value \in U32Values :
           /\ prev' = last
           /\ last' = Call("FieldNumber::try_from", value, FieldNumber_try_from(value))
    /\ UNCHANGED <<buf, cap, usize_bytes, any>>

\* Tag::new(field_number, wire_type).encode(buf), with the FieldNumber just made
Tag_new_encode ==
    /\ Running /\ buf = <<>>
    /\ last.op \in {"FieldNumber::new", "FieldNumber::try_from"}
    /\ last.out.kind = "ok"
    /\ \E wire_type \in WireTypes :
           LET tag == Tag_new(last.out.val, wire_type)
           IN Put("Tag::encode", tag, Tag_encode_bytes(tag))
    /\ UNCHANGED <<usize_bytes, any>>

\* a fresh buffer with room to write, or a filled one to read from
Fresh(usizes) ==
    /\ usize_bytes \in usizes
    /\ \/ buf = <<>> /\ cap \in 0..MaxCap
       \/ buf \in InputBufs \ {<<>>} /\ cap = 0
    /\ any = NoAny
    /\ prev = NoCall
    /\ last = NoCall

(* The varint codec.                                                       *)
Init == Fresh({U64_BYTES})

Next ==
    \/ Varint_encode
    \/ Varint_decode
    \/ decode_varint_slice_call
    \/ decode_varint_slow_call

Spec == Init /\ [][Next]_vars

(* Tags, over the varint encoder that supplies arbitrary keys.             *)
NextTag ==
    \/ Varint_encode
    \/ Tag_encode
    \/ Tag_decode

SpecTag == Init /\ [][NextTag]_vars

(* Length delimiters, on 32-bit and 64-bit targets.                        *)
InitLen == Fresh({U32_BYTES, U64_BYTES})

NextLen ==
    \/ encode_length_delimiter
    \/ Grow
    \/ decode_length_delimiter

SpecLen == InitLen /\ [][NextLen]_vars

(* The three encoders side by side.                                        *)
NextEnc ==
    \/ Varint_encode
    \/ Tag_encode
    \/ encode_length_delimiter

SpecEnc == InitLen /\ [][NextEnc]_vars

(* Field numbers, however they are obtained, and the tags made of them.    *)
NextField ==
    \/ FieldNumber_new_call
    \/ FieldNumber_try_from_call
    \/ Tag_new_encode
    \/ Varint_encode
    \/ Tag_decode

SpecField == Init /\ [][NextField]_vars

(* Any: built from a message, or received with any URL and payload.        *)
InitAny ==
    /\ buf = <<>> /\ cap = 0 /\ usize_bytes = U64_BYTES
    /\ any \in {NoAny} \cup {AnyOf(url, value) : url \in StoredUrls, value \in Payloads}
    /\ prev = NoCall
    /\ last = NoCall

NextAny ==
    \/ Any_from_msg
    \/ Any_to_msg

SpecAny == InitAny /\ [][NextAny]_vars

-----------------------------------------------------------------------------
(* What the claims are stated with.                                        *)

\* bits 7g .. 7g+6 of the word v, as a number below 128
Group(v, g) ==
    BitOf(v, 7 * g) + 2 * BitOf(v, 7 * g + 1) + 4 * BitOf(v, 7 * g + 2)
        + 8 * BitOf(v, 7 * g + 3) + 16 * BitOf(v, 7 * g + 4)
        + 32 * BitOf(v, 7 * g + 5) + 64 * BitOf(v, 7 * g + 6)

\* bytes is the minimal little-endian base-128 form of the word v
IsLEB128(v, bytes) ==
    LET n == Len(bytes)
    IN /\ n \in 1..10
       /\ \A i \in 1..n :
              /\ bytes[i] % 128 = Group(v, i - 1)
              /\ (bytes[i] >= 128) = (i < n)
       /\ \A g \in n..9 : Group(v, g) = 0
       /\ bytes[n] # 0 \/ IsZero(v)

\* the first 10 bytes hold a terminated varint of a value below 2^64
HoldsVarint(bytes) ==
    \E n \in 1..Min(10, Len(bytes)) :
        /\ bytes[n] < 128
        /\ \A i \in 1..(n - 1) : bytes[i] >= 128
        /\ n = 10 => bytes[n] < 2

\* what decode_varint_slice asks of its caller
SlicePre(bytes) ==
    bytes # <<>> /\ (Len(bytes) > 10 \/ bytes[Len(bytes)] < 128)

U64_MAX_PLUS_ONE == <<255, 255, 255, 255, 255, 255, 255, 255, 255, 2>>

Decoded(op) == last.op = op /\ prev.op = "Varint::encode" /\ prev.out.kind = "ok"

\* C1: a u64 written by Varint::encode into an empty buffer is read back by
\* Varint::decode, which consumes exactly the bytes written, and by
\* decode_varint_slow.
C1_RoundTrip ==
    /\ Decoded("Varint::decode") =>
           /\ last.out.kind = "ok"
           /\ last.out.val = prev.arg
           /\ last.out.used = prev.out.used
           /\ buf = <<>>
    /\ Decoded("decode_varint_slow") =>
           /\ last.out.kind = "ok"
           /\ last.out.val = prev.arg

C1_Witness ==
    /\ Decoded("Varint::decode")
    /\ prev.arg = U64_MAX
    /\ last.out.val = U64_MAX
    /\ last.out.used = 10

\* C2: Varint::encode writes the minimal LEB128 form of the value: byte i holds
\* bits 7i..7i+6, every byte but the last has bit 7 set, the last byte is below
\* 0x80 and is zero only for the value 0.
C2_MinimalLEB128 ==
    (last.op = "Varint::encode" /\ last.out.kind = "ok") =>
        /\ IsLEB128(last.arg, buf)
        /\ last.arg = U64(300) => buf = <<172, 2>>
        /\ last.arg = Pow2W(U64_BYTES, 7) => buf = <<128, 1>>
        /\ last.arg = U64_MAX => buf = <<255, 255, 255, 255, 255, 255, 255, 255, 255, 1>>

C2_Witness ==
    /\ last.op = "Varint::encode" /\ last.out.kind = "ok"
    /\ last.arg = Pow2W(U64_BYTES, 63)
    /\ Len(buf) = 10

\* C4: an input whose first 10 bytes hold no terminated varint of a value below
\* 2^64 is refused as an invalid varint by Varint::decode and by
\* decode_varint_slow: a 10th byte of 2 or more, ten continuation bytes, an
\* input that ends in a continuation byte, the empty input.
C4_InvalidVarint ==
    (last.op \in {"Varint::decode", "decode_varint_slow"}
        /\ ~HoldsVarint(last.before)) =>
            /\ last.out.kind = "err"
            /\ last.out.err = INVALID_VARINT

C4_Witness ==
    /\ last.op = "Varint::decode"
    /\ last.before = U64_MAX_PLUS_ONE
    /\ last.out.kind = "err"

\* C5: on every slice it may be called with, decode_varint_slice agrees with
\* decode_varint_slow: both succeed or both fail, and on success they return the
\* same value and the same number of consumed bytes.
C5_SliceAgreesWithSlow ==
    (prev.op = "decode_varint_slice" /\ last.op = "decode_varint_slow"
        /\ SlicePre(prev.before)) =>
            /\ last.before = prev.before
            /\ prev.out.kind \in {"ok", "err"}
            /\ prev.out.kind = last.out.kind
            /\ prev.out.kind = "ok" =>
                   /\ prev.out.val = last.out.val
                   /\ prev.out.used = last.out.used

C5_Witness ==
    /\ prev.op = "decode_varint_slice" /\ last.op = "decode_varint_slow"
    /\ Len(prev.before) = 11
    /\ prev.out.kind = "ok" /\ prev.out.used = 10
    /\ last.out.kind = "ok"

Wrote(op) == last.op = op /\ last.out.kind = "ok"

\* C3: encoded_len is exact: Varint::encoded_len is the number of bytes
\* Varint::encode appends and lies in 1..10; length_delimiter_len(L) is the
\* encoded_len of Varint(L); Tag::encoded_len is the number of bytes Tag::encode
\* appends and lies in 1..5.
C3_EncodedLenExact ==
    /\ Wrote("Varint::encode") =>
           /\ Varint_encoded_len(last.arg) = last.out.used
           /\ Len(buf) = Len(last.before) + Varint_encoded_len(last.arg)
           /\ Varint_encoded_len(last.arg) \in 1..10
    /\ last.op = "encode_length_delimiter" =>
           /\ length_delimiter_len(last.arg)
                  = Varint_encoded_len(Resize(last.arg, U64_BYTES))
           /\ length_delimiter_len(last.arg) \in 1..10
    /\ Wrote("Tag::encode") =>
           /\ Tag_encoded_len(last.arg) = last.out.used
           /\ Len(buf) = Len(last.before) + Tag_encoded_len(last.arg)
           /\ Tag_encoded_len(last.arg) \in 1..5

C3_Witness ==
    /\ Wrote("Tag::encode")
    /\ last.arg = Tag_new(MAX_VALUE, "Fixed32")
    /\ last.out.used = 5

\* bit j of (field_number << 3) | wire_type
KeyBit(tag, j) ==
    IF j < 3 THEN (WireTypeValue(tag.wire_type) \div (2 ^ j)) % 2
    ELSE IF j < 32 THEN BitOf(tag.field_number, j - 3)
    ELSE 0

\* (field_number << 3) | wire_type as a u64
KeyWord(tag) ==
    [i \in 1..U64_BYTES |->
        KeyBit(tag, 8 * (i - 1)) + 2 * KeyBit(tag, 8 * (i - 1) + 1)
            + 4 * KeyBit(tag, 8 * (i - 1) + 2) + 8 * KeyBit(tag, 8 * (i - 1) + 3)
            + 16 * KeyBit(tag, 8 * (i - 1) + 4) + 32 * KeyBit(tag, 8 * (i - 1) + 5)
            + 64 * KeyBit(tag, 8 * (i - 1) + 6) + 128 * KeyBit(tag, 8 * (i - 1) + 7)]

\* C6: Tag::decode of the bytes Tag::encode wrote returns the same field number
\* and wire type and consumes exactly those bytes, which are the varint of
\* (field_number << 3) | wire_type.
C6_TagRoundTrip ==
    /\ Wrote("Tag::encode") => IsLEB128(KeyWord(last.arg), buf)
    /\ (last.op = "Tag::decode" /\ prev.op = "Tag::encode" /\ prev.out.kind = "ok") =>
           /\ last.out.kind = "ok"
           /\ last.out.val.field_number = prev.arg.field_number
           /\ last.out.val.wire_type = prev.arg.wire_type
           /\ last.out.used = prev.out.used
           /\ buf = <<>>

C6_Witness ==
    /\ last.op = "Tag::decode" /\ prev.op = "Tag::encode"
    /\ prev.arg = Tag_new(MAX_VALUE, "Fixed32")
    /\ last.out.kind = "ok"
    /\ last.out.used = 5

KeyTooBig(key) == \E k \in 32..63 : BitOf(key, k) = 1
Low3(key) == BitOf(key, 0) + 2 * BitOf(key, 1) + 4 * BitOf(key, 2)
NoField(key) == \A k \in 3..31 : BitOf(key, k) = 0

\* Tag::decode was handed the varint of the key that Varint::encode wrote
DecodedKey == last.op = "Tag::decode" /\ prev.op = "Varint::encode" /\ prev.out.kind = "ok"

\* C7: Tag::decode refuses a key above 2^32-1 (invalid key value), else low bits
\* 6 or 7 (invalid wire type value), else key >> 3 = 0 (invalid field number),
\* in that order, and returns no Tag; every other key decodes.
C7_TagDecodeErrors ==
    DecodedKey =>
        LET key == prev.arg
        IN IF KeyTooBig(key)
           THEN last.out.kind = "err" /\ last.out.err = INVALID_KEY
                    /\ last.out.val = NoVal
           ELSE IF Low3(key) \in {6, 7}
           THEN last.out.kind = "err" /\ last.out.err = INVALID_WIRE_TYPE
                    /\ last.out.val = NoVal
           ELSE IF NoField(key)
           THEN last.out.kind = "err" /\ last.out.err = INVALID_FIELD_NUMBER
                    /\ last.out.val = NoVal
           ELSE /\ last.out.kind = "ok"
                /\ WireTypeValue(last.out.val.wire_type) = Low3(key)
                /\ KeyWord(last.out.val) = key

C7_Witness ==
    /\ DecodedKey
    /\ prev.arg = U64(7)
    /\ last.out.kind = "err"
    /\ last.out.err = INVALID_WIRE_TYPE

\* C8: encode_length_delimiter checks the capacity itself: with less room than
\* length_delimiter_len(length) it returns the error carrying required and
\* remaining and writes nothing; otherwise it writes exactly that many bytes.
\* The refused call, repeated with at least `required` bytes of room, succeeds
\* and writes the delimiter.
C8_CapacityChecked ==
    /\ last.op = "encode_length_delimiter" =>
           LET required == length_delimiter_len(last.arg)
           IN IF last.cap < required
              THEN /\ last.out.kind = "err"
                   /\ last.out.val = [required |-> required, remaining |-> last.cap]
                   /\ buf = last.before
              ELSE /\ last.out.kind = "ok"
                   /\ Len(buf) = Len(last.before) + required
                   /\ cap = last.cap - required
    /\ (last.op = "encode_length_delimiter" /\ last.arg = Resize(U64(300), usize_bytes)
            /\ last.cap = 1) =>
           last.out.val = [required |-> 2, remaining |-> 1]
    /\ (last.op = "encode_length_delimiter" /\ prev.op = "encode_length_delimiter"
            /\ prev.out.kind = "err" /\ last.arg = prev.arg
            /\ last.cap >= prev.out.val.required) =>
           /\ last.out.kind = "ok"
           /\ last.before = prev.before
           /\ IsLEB128(Resize(last.arg, U64_BYTES), Drop(buf, Len(last.before)))

C8_Witness ==
    /\ last.op = "encode_length_delimiter" /\ prev.op = "encode_length_delimiter"
    /\ prev.arg = Resize(U64(300), usize_bytes) /\ last.arg = prev.arg
    /\ prev.out.kind = "err" /\ prev.out.val = [required |-> 2, remaining |-> 1]
    /\ last.out.kind = "ok" /\ buf = <<172, 2>>

RoundTrips(T, msg) ==
    LET back == Message_decode(T, Message_encode(T, msg))
    IN back.kind = "ok" /\ back.val = msg

\* C9: for a type with a well-formed type URL whose messages round-trip,
\* Any::from_msg yields an Any with exactly the type's URL and the message's
\* encoding, and to_msg for the same type returns the message.
C9_AnyRoundTrip ==
    /\ (last.op = "Any::from_msg" /\ WellFormed(type_url(last.arg.type))) =>
           /\ last.out.kind = "ok"
           /\ any.type_url = type_url(last.arg.type)
           /\ any.value = Message_encode(last.arg.type, last.arg.msg)
           /\ last.arg.type = "Timestamp" =>
                  any.type_url = <<"type.googleapis.com", "/", "google.protobuf.Timestamp">>
    /\ (last.op = "Any::to_msg" /\ prev.op = "Any::from_msg"
            /\ last.arg = prev.arg.type
            /\ WellFormed(type_url(prev.arg.type))
            /\ RoundTrips(prev.arg.type, prev.arg.msg)) =>
           /\ last.out.kind = "ok"
           /\ last.out.val = prev.arg.msg

C9_Witness ==
    /\ last.op = "Any::to_msg" /\ prev.op = "Any::from_msg"
    /\ prev.arg.type = "Timestamp" /\ last.arg = "Timestamp"
    /\ prev.arg.msg = [seconds |-> U64(946684800), nanos |-> U64(0)]
    /\ last.out.kind = "ok"
    /\ last.out.val = prev.arg.msg

\* to_msg went on to decode the payload as the type asked for
Interpreted == last.op = "Any::to_msg" /\ last.out.err # "UnexpectedTypeUrl"

\* C10: to_msg decodes the payload as T only when the stored URL and T's URL are
\* both well-formed and equal as strings; a malformed URL on either side matches
\* nothing, not even the same malformed string.
C10_UrlGate ==
    /\ Interpreted =>
           /\ WellFormed(any.type_url)
           /\ WellFormed(type_url(last.arg))
           /\ any.type_url = type_url(last.arg)
    /\ (last.op = "Any::to_msg"
            /\ (~WellFormed(any.type_url) \/ ~WellFormed(type_url(last.arg)))) =>
           /\ last.out.kind = "err"
           /\ last.out.err = "UnexpectedTypeUrl"

C10_Witness ==
    /\ last.op = "Any::to_msg"
    /\ last.arg = "Bare"
    /\ any.type_url = type_url("Bare")
    /\ last.out.err = "UnexpectedTypeUrl"

\* the stored URL and the URL of the type asked for are both type URLs, and equal
UrlsMatch(T) ==
    /\ WellFormed(any.type_url)
    /\ WellFormed(type_url(T))
    /\ any.type_url = type_url(T)

\* C11: to_msg has exactly three outcomes.  Without a URL match it fails with
\* UnexpectedTypeUrl carrying the stored string verbatim and the expected URL,
\* whatever the payload holds and also when a URL is malformed; with a match and
\* a corrupt payload it fails with the decode error wrapped as Decode; with a
\* match and a valid payload it returns the decoded value.  The Any is left as
\* it was.
C11_ThreeOutcomes ==
    /\ [](last.op = "Any::to_msg" =>
             LET T == last.arg
                 decoded == Message_decode(T, any.value)
             IN /\ ~UrlsMatch(T) =>
                       /\ last.out.kind = "err"
                       /\ last.out.err = "UnexpectedTypeUrl"
                       /\ last.out.val = [actual |-> any.type_url, expected |-> type_url(T)]
                /\ (UrlsMatch(T) /\ decoded.kind = "err") =>
                       /\ last.out.kind = "err"
                       /\ last.out.err = "Decode"
                       /\ last.out.val = decoded.err
                /\ (UrlsMatch(T) /\ decoded.kind = "ok") =>
                       /\ last.out.kind = "ok"
                       /\ last.out.val = decoded.val)
    /\ [][(any.set /\ last'.op = "Any::to_msg") => any' = any]_vars

\* a malformed stored URL over a corrupt payload: neither a parse error nor a
\* decode error
C11_Witness ==
    /\ last.op = "Any::to_msg" /\ last.arg = "Timestamp"
    /\ any.type_url = <<"type.googleapis.com", "/">>
    /\ any.value = <<128>>
    /\ last.out.err = "UnexpectedTypeUrl"
    /\ last.out.val.actual = any.type_url
    /\ last.out.val.expected = TIMESTAMP_URL

\* 1 <= v <= 2^29 - 1, read off the bits of v
InRange(v) == ~IsZero(v) /\ \A k \in 29..31 : BitOf(v, k) = 0

\* a FieldNumber the last call made, produced or was given
Held ==
    CASE last.op \in {"FieldNumber::new", "FieldNumber::try_from"} /\ last.out.kind = "ok" ->
             {last.out.val}
      [] last.op = "Tag::decode" /\ last.out.kind = "ok" -> {last.out.val.field_number}
      [] last.op = "Tag::encode" -> {last.arg.field_number}
      [] OTHER -> {}

\* C12: every FieldNumber holds a value in [1, 2^29-1].  try_from succeeds
\* exactly in that range and fails with invalid field number outside it, new
\* panics for exactly the values try_from refuses, Tag::decode produces only
\* in-range field numbers, and so the key of a tag fits in 32 bits with no bit
\* lost to the shift.
C12_FieldNumberRange ==
    /\ \A v \in Held : InRange(v)
    /\ last.op = "FieldNumber::try_from" =>
           IF InRange(last.arg)
           THEN last.out.kind = "ok" /\ last.out.val = last.arg
           ELSE last.out.kind = "err" /\ last.out.err = INVALID_FIELD_NUMBER
    /\ last.op = "FieldNumber::new" =>
           IF InRange(last.arg)
           THEN last.out.kind = "ok" /\ last.out.val = last.arg
           ELSE last.out.kind = "panic"
    /\ last.op = "Tag::encode" =>
           LET wide == WOr(WShl(Resize(last.arg.field_number, U64_BYTES), 3),
                           U64(WireTypeValue(last.arg.wire_type)))
           IN /\ \A i \in (U32_BYTES + 1)..U64_BYTES : wide[i] = 0
              /\ Tag_key(last.arg) = wide
              /\ WShr(WShl(last.arg.field_number, 3), 3) = last.arg.field_number

C12_Witness ==
    /\ prev.op = "FieldNumber::new" /\ prev.arg = MAX_VALUE
    /\ last.op = "Tag::encode" /\ last.arg.field_number = MAX_VALUE
    /\ last.arg.wire_type = "Fixed32"
    /\ last.out.kind = "ok"
    /\ buf = <<253, 255, 255, 255, 15>>

\* more input completes the delimiter: the buffer is empty or all its bytes
\* have the continuation bit set, and it decodes once a byte ends it (a final
\* 0 adds nothing to the value, so if any extension decodes, this one does)
NeedsMore(bytes) ==
    /\ \A i \in 1..Len(bytes) : bytes[i] >= 128
    /\ \E t \in {0, 1} :
           LengthDelimiter_decode_bytes(bytes \o <<t>>, usize_bytes).kind = "ok"

\* no further input makes the buffer decode
Unrepairable(bytes) ==
    \A more \in {<<0>>, <<1>>, <<128, 0>>, <<255, 1>>} :
        LengthDelimiter_decode_bytes(bytes \o more, usize_bytes).kind = "err"

\* C13: decode_length_delimiter fails in two cases only: on fewer than 10 bytes,
\* when more input is needed (the buffer is empty or every byte continues, and
\* an extension decodes); on more than 10 bytes, when the delimiter is invalid
\* whatever follows.  When it succeeds the value is the one Varint::decode gives.
C13_TwoErrorCases ==
    last.op = "decode_length_delimiter" =>
        /\ last.out.kind = "err" =>
               \/ Len(last.before) < 10 /\ NeedsMore(last.before)
               \/ Len(last.before) > 10 /\ Unrepairable(last.before)
        /\ last.out.kind = "ok" =>
               LET v == Varint_decode_bytes(last.before)
               IN /\ v.kind = "ok"
                  /\ Resize(last.out.val, U64_BYTES) = v.val
                  /\ last.out.used = v.used

\* the indices decode_varint_slice reads: index 0, and each next index up to 9 as
\* long as every byte read before it has its continuation bit set
SliceReads(bytes) ==
    {i \in 0..9 : \A j \in 0..(i - 1) : j < Len(bytes) /\ bytes[j + 1] >= 128}

\* C14: Varint::decode enters decode_varint_slice only with a slice that meets
\* its precondition, so no assertion fails and every unchecked read is below
\* the slice length; and it never looks at more than the first 10 bytes.
C14_SliceEntrySafe ==
    last.op = "Varint::decode" =>
        /\ last.out.kind \in {"ok", "err"}
        /\ last.out.path = "slice" =>
               /\ SlicePre(last.before)
               /\ Len(last.before) >= 10 \/ last.before[Len(last.before)] < 128
               /\ \A i \in SliceReads(last.before) : i < Len(last.before)
        /\ last.out.used <= 10
        /\ LET head == Varint_decode_bytes(SubSeq(last.before, 1, Min(10, Len(last.before))))
           IN /\ head.kind = last.out.kind
              /\ head.val = last.out.val
              /\ head.err = last.out.err
              /\ head.kind = "ok" => head.used = last.out.used

\* a slice of exactly 10 bytes read up to its last index
C14_Witness ==
    /\ last.op = "Varint::decode"
    /\ last.out.path = "slice"
    /\ last.before = <<255, 255, 255, 255, 255, 255, 255, 255, 255, 1>>
    /\ SliceReads(last.before) = 0..9
    /\ last.out.kind = "ok" /\ last.out.used = 10

====
